---- MODULE Spec2Model ----
(***************************************************************************)
(* Model of src/infra/ldap_server.rs: the per-connection LDAP session      *)
(* (LdapHandler), the read/dispatch/write/flush cycle                      *)
(* (handle_incoming_message) and the per-connection service built by       *)
(* build_ldap_server.                                                      *)
(*                                                                         *)
(* Every connection is one task.  A task is suspended only at an .await:   *)
(* requests.next(), resp.send(..) and resp.flush().  The code between two  *)
(* awaits is one atomic step of the model.                                 *)
(***************************************************************************)
EXTENDS Integers, Sequences, FiniteSets, TLC

\* ------------------------------------------------------------------ bounds
\* Message ids a client puts in its requests.
MaxMsgId == 2

MsgIds == 1..MaxMsgId

\* The connections the listener accepts; each is served by its own task.
Conns == {"A", "B"}

\* ------------------------------------------------------ values of the code
Unauthenticated == "Unauthenticated"

\* Distinguished names and passwords a client may put in a bind request.
Names     == {"x", "y"}
Passwords == {"secret"}

\* What BackendHandler::bind may return: Ok(()) or some Err(_).
BackendOk      == "Ok"
BackendResults == {BackendOk, "ErrUnknownUser", "ErrWrongPassword"}

\* Option<Vec<LdapMsg>>
None    == [some |-> FALSE, val |-> <<>>]
Some(v) == [some |-> TRUE, val |-> v]

\* Result<_, _>
Ok(v)  == [ok |-> TRUE, val |-> v]
Err(e) == [ok |-> FALSE, val |-> e]

\* ----------------------------------------------- incoming items (the input)
\* Decoded LdapMsg values the codec can yield.
SimpleBindMsgs == [msgid : MsgIds, op : {"BindRequest"}, dn : Names, pw : Passwords]
SearchMsgs     == [msgid : MsgIds, op : {"SearchRequest"}]
UnbindMsgs     == [msgid : MsgIds, op : {"UnbindRequest"}]
WhoamiMsgs     == [msgid : MsgIds, op : {"WhoamiRequest"}]
\* Well-formed messages that are none of the four ServerOps.
OtherMsgs      == [msgid : MsgIds, op : {"ModifyRequest"}]

LdapMsgs == SimpleBindMsgs \cup SearchMsgs \cup UnbindMsgs \cup WhoamiMsgs \cup OtherMsgs

\* std::io::Error values of the stream: a codec decode failure or a read failure.
IoErrors == {[error |-> "decode"], [error |-> "read"]}

\* Items of the request stream: Result<LdapMsg, std::io::Error>.
Incoming == {Ok(m) : m \in LdapMsgs} \cup {Err(e) : e \in IoErrors}

\* ServerOps::try_from(msg)
ServerOps_try_from(msg) ==
    CASE msg.op = "BindRequest"   -> Ok([kind |-> "SimpleBind", msgid |-> msg.msgid,
                                         dn |-> msg.dn, pw |-> msg.pw])
      [] msg.op = "SearchRequest" -> Ok([kind |-> "Search", msgid |-> msg.msgid])
      [] msg.op = "UnbindRequest" -> Ok([kind |-> "Unbind", msgid |-> msg.msgid])
      [] msg.op = "WhoamiRequest" -> Ok([kind |-> "Whoami", msgid |-> msg.msgid])
      [] OTHER                    -> Err([error |-> "unit"])

\* msg.map_err(|_e| ()).and_then(|msg| ServerOps::try_from(msg))
convert(msg) == IF msg.ok THEN ServerOps_try_from(msg.val) ELSE Err([error |-> "unit"])

\* ------------------------------------------------------- response builders
\* sbr.gen_success()
bind_gen_success(sbr) ==
    [msgid |-> sbr.msgid, op |-> "BindResponse", code |-> "Success"]

\* sbr.gen_invalid_cred()
gen_invalid_cred(sbr) ==
    [msgid |-> sbr.msgid, op |-> "BindResponse", code |-> "InvalidCredentials"]

\* lsr.gen_result_entry(entry)
gen_result_entry(lsr, entry) ==
    [msgid |-> lsr.msgid, op |-> "SearchResultEntry", entry |-> entry]

\* lsr.gen_success()
search_gen_success(lsr) ==
    [msgid |-> lsr.msgid, op |-> "SearchResultDone", code |-> "Success"]

\* Mutant of format_dn: the separator after "dn:" is lost.
format_dn_no_space(dn) == "dn:" \o dn

\* format!("dn: {}", self.dn)
format_dn(dn) == "dn: " \o dn

\* wr.gen_success(text)
whoami_gen_success(wr, text) ==
    [msgid |-> wr.msgid, op |-> "WhoamiResponse", code |-> "Success", value |-> text]

\* DisconnectionNotice::gen(LdapResultCode::Other, "Internal Server Error")
DisconnectionNotice ==
    [msgid |-> 0, op |-> "DisconnectionNotice", code |-> "Other",
     message |-> "Internal Server Error"]

\* The two LdapSearchResultEntry values do_search builds, in vec! order.
EntryHello ==
    [dn |-> "cn=hello,dc=example,dc=com",
     attributes |-> << [atype |-> "objectClass", vals |-> <<"cursed">>],
                       [atype |-> "cn", vals |-> <<"hello">>] >>]

EntryWorld ==
    [dn |-> "cn=world,dc=example,dc=com",
     attributes |-> << [atype |-> "objectClass", vals |-> <<"cursed">>],
                       [atype |-> "cn", vals |-> <<"world">>] >>]

SearchEntries == <<EntryHello, EntryWorld>>

\* ------------------------------------------------------------- LdapHandler
\* A session is the record [dn |-> String]; every method returns the session
\* after the call (self) and the value returned (ret).

\* Mutant of do_bind: an accepted bind leaves self.dn as it was.
do_bind_forgets(self, sbr, backend) ==
    IF backend = BackendOk
    THEN [self |-> self, ret |-> bind_gen_success(sbr)]
    ELSE [self |-> self, ret |-> gen_invalid_cred(sbr)]

\* Mutant of do_bind: self.dn is assigned before the backend's answer is looked at.
do_bind_sets_first(self, sbr, backend) ==
    IF backend = BackendOk
    THEN [self |-> [dn |-> sbr.dn], ret |-> bind_gen_success(sbr)]
    ELSE [self |-> [dn |-> sbr.dn], ret |-> gen_invalid_cred(sbr)]

\* Mutant of do_bind: the Response tells an unknown identity from a wrong
\* credential.
do_bind_leaks(self, sbr, backend) ==
    IF backend = BackendOk
    THEN [self |-> [dn |-> sbr.dn], ret |-> bind_gen_success(sbr)]
    ELSE IF backend = "ErrUnknownUser"
         THEN [self |-> self,
               ret |-> [msgid |-> sbr.msgid, op |-> "BindResponse",
                        code |-> "NoSuchObject"]]
         ELSE [self |-> self, ret |-> gen_invalid_cred(sbr)]

\* LdapHandler::do_bind; backend is what backend_handler.bind(..) returned.
do_bind(self, sbr, backend) ==
    IF backend = BackendOk
    THEN [self |-> [dn |-> sbr.dn], ret |-> bind_gen_success(sbr)]
    ELSE [self |-> self, ret |-> gen_invalid_cred(sbr)]

\* Mutant of do_search: the terminal search-done message is pushed first.
do_search_done_first(self, lsr) ==
    [self |-> self,
     ret  |-> << search_gen_success(lsr),
                 gen_result_entry(lsr, EntryHello),
                 gen_result_entry(lsr, EntryWorld) >>]

\* Mutant of do_search: a search drops the session's identity.
do_search_resets(self, lsr) ==
    [self |-> [dn |-> Unauthenticated],
     ret  |-> << gen_result_entry(lsr, EntryHello),
                 gen_result_entry(lsr, EntryWorld),
                 search_gen_success(lsr) >>]

\* Mutant of do_search: an unauthenticated session gets no entries.
do_search_gated(self, lsr) ==
    [self |-> self,
     ret  |-> IF self.dn = Unauthenticated
              THEN << search_gen_success(lsr) >>
              ELSE << gen_result_entry(lsr, EntryHello),
                      gen_result_entry(lsr, EntryWorld),
                      search_gen_success(lsr) >>]

\* LdapHandler::do_search
do_search(self, lsr) ==
    [self |-> self,
     ret  |-> << gen_result_entry(lsr, EntryHello),
                 gen_result_entry(lsr, EntryWorld),
                 search_gen_success(lsr) >>]

\* LdapHandler::do_whoami
do_whoami(self, wr) ==
    [self |-> self, ret |-> whoami_gen_success(wr, format_dn(self.dn))]

\* Mutant of backend_calls: name and password change places.
backend_calls_swapped(server_op) ==
    IF server_op.kind = "SimpleBind"
    THEN << [name |-> server_op.pw, password |-> server_op.dn] >>
    ELSE << >>

\* The calls handle_ldap_message makes to backend_handler.bind: one BindRequest
\* {name, password} for a SimpleBind, none otherwise.
backend_calls(server_op) ==
    IF server_op.kind = "SimpleBind"
    THEN << [name |-> server_op.dn, password |-> server_op.pw] >>
    ELSE << >>

\* What the backend may answer to the calls of one dispatch: one result a call.
BackendAnswers(server_op) == [DOMAIN backend_calls(server_op) -> BackendResults]

\* Mutant of handle_ldap_message: Unbind answers with an empty list of
\* Responses instead of None.
handle_ldap_message_unbind_some(self, server_op, answers) ==
    CASE server_op.kind = "SimpleBind" ->
            LET r == do_bind(self, server_op, answers[1])
            IN  [self |-> r.self, ret |-> Some(<<r.ret>>)]
      [] server_op.kind = "Search" ->
            LET r == do_search(self, server_op)
            IN  [self |-> r.self, ret |-> Some(r.ret)]
      [] server_op.kind = "Unbind" ->
            [self |-> self, ret |-> Some(<<>>)]
      [] server_op.kind = "Whoami" ->
            LET r == do_whoami(self, server_op)
            IN  [self |-> r.self, ret |-> Some(<<r.ret>>)]

\* Mutant of handle_ldap_message: a Bind the backend rejects ends the
\* connection instead of being answered.
handle_ldap_message_reject_closes(self, server_op, answers) ==
    CASE server_op.kind = "SimpleBind" ->
            LET r == do_bind(self, server_op, answers[1])
            IN  IF answers[1] = BackendOk
                THEN [self |-> r.self, ret |-> Some(<<r.ret>>)]
                ELSE [self |-> r.self, ret |-> None]
      [] server_op.kind = "Search" ->
            LET r == do_search(self, server_op)
            IN  [self |-> r.self, ret |-> Some(r.ret)]
      [] server_op.kind = "Unbind" ->
            [self |-> self, ret |-> None]
      [] server_op.kind = "Whoami" ->
            LET r == do_whoami(self, server_op)
            IN  [self |-> r.self, ret |-> Some(<<r.ret>>)]

\* Mutant of handle_ldap_message: Whoami is answered with None.
handle_ldap_message_whoami_none(self, server_op, answers) ==
    CASE server_op.kind = "SimpleBind" ->
            LET r == do_bind(self, server_op, answers[1])
            IN  [self |-> r.self, ret |-> Some(<<r.ret>>)]
      [] server_op.kind = "Search" ->
            LET r == do_search(self, server_op)
            IN  [self |-> r.self, ret |-> Some(r.ret)]
      [] server_op.kind = "Unbind" ->
            [self |-> self, ret |-> None]
      [] server_op.kind = "Whoami" ->
            [self |-> self, ret |-> None]

\* LdapHandler::handle_ldap_message; answers are the results of the backend
\* calls it makes, in call order.
handle_ldap_message(self, server_op, answers) ==
    CASE server_op.kind = "SimpleBind" ->
            LET r == do_bind(self, server_op, answers[1])
            IN  [self |-> r.self, ret |-> Some(<<r.ret>>)]
      [] server_op.kind = "Search" ->
            LET r == do_search(self, server_op)
            IN  [self |-> r.self, ret |-> Some(r.ret)]
      [] server_op.kind = "Unbind" ->
            [self |-> self, ret |-> None]
      [] server_op.kind = "Whoami" ->
            LET r == do_whoami(self, server_op)
            IN  [self |-> r.self, ret |-> Some(<<r.ret>>)]

\* ------------------------------------------------------------------- state
VARIABLES
    listening,  \* the server built by build_ldap_server is running
    pc,         \* where each connection's task is suspended
    session,    \* each connection's LdapHandler
    iter,       \* each connection's result.into_iter(): Responses still to send
    cur,        \* the incoming item of the current cycle and what dispatch did with it
    io,         \* the send and flush attempts of the current cycle, in order
    outcome,    \* how the connection's service future ended
    bound,      \* history: identity of the latest Bind the backend accepted
    eof         \* history: requests.next() has yielded None on the connection

vars == <<listening, pc, session, iter, cur, io, outcome, bound, eof>>

\* No LdapHandler exists before the connection is accepted.
NoSession == [dn |-> "<no session>"]

\* No cycle has started on the connection.
NoCycle == [started |-> FALSE, item |-> Err([error |-> "none"]), dnBefore |-> "<no session>",
            backend |-> <<>>, ret |-> None]

Init ==
    /\ listening = TRUE
    /\ pc = [c \in Conns |-> "Idle"]
    /\ session = [c \in Conns |-> NoSession]
    /\ iter = [c \in Conns |-> <<>>]
    /\ cur = [c \in Conns |-> NoCycle]
    /\ io = [c \in Conns |-> <<>>]
    /\ outcome = [c \in Conns |-> "running"]
    /\ bound = [c \in Conns |-> Unauthenticated]
    /\ eof = [c \in Conns |-> FALSE]

\* Mutant of map_err: the error of one connection's service stops the server.
map_err_propagates(running) == FALSE

\* .map_err(|err| error!("Service Error: {:?}", err)): the error of one
\* connection's service is logged; the server keeps running.
map_err(running) == running

\* Mutant of own_session: one LdapHandler is shared by all connections.
own_session_shared(sessions, c, s) == [d \in Conns |-> s]

\* `let mut session = LdapHandler {..}` inside the per-connection service and
\* `session: &mut LdapHandler`: a connection's task writes its own handler only.
own_session(sessions, c, s) == [sessions EXCEPT ![c] = s]

\* Mutant of Accept: a closed connection is served again.
Accept_reopens(c) ==
    /\ listening
    /\ pc[c] \in {"Idle", "Closed"}
    /\ pc' = [pc EXCEPT ![c] = "Reading"]
    /\ session' = own_session(session, c, [dn |-> Unauthenticated])
    /\ UNCHANGED <<listening, iter, cur, io, outcome, bound, eof>>

\* The service closure up to the first requests.next().await: a new connection
\* gets its own LdapHandler with dn "Unauthenticated".
Accept(c) ==
    /\ listening
    /\ pc[c] = "Idle"
    /\ pc' = [pc EXCEPT ![c] = "Reading"]
    /\ session' = own_session(session, c, [dn |-> Unauthenticated])
    /\ UNCHANGED <<listening, iter, cur, io, outcome, bound, eof>>

\* Mutant of StreamEnd: the end of the stream is answered with a
\* disconnection notice, like an error.
StreamEnd_notifies(c) ==
    /\ pc[c] = "Reading"
    /\ pc' = [pc EXCEPT ![c] = "NoticeSend"]
    /\ eof' = [eof EXCEPT ![c] = TRUE]
    /\ UNCHANGED <<listening, session, iter, cur, io, outcome, bound>>

\* requests.next() yields None: the while-let loop ends, the service returns
\* Ok(stream).
StreamEnd(c) ==
    /\ pc[c] = "Reading"
    /\ pc' = [pc EXCEPT ![c] = "Closed"]
    /\ outcome' = [outcome EXCEPT ![c] = "ok"]
    /\ eof' = [eof EXCEPT ![c] = TRUE]
    /\ UNCHANGED <<listening, session, iter, cur, io, bound>>

\* Mutant of RecvError: an item that converts to no ServerOps is skipped.
RecvError_skips(c, item) ==
    /\ pc[c] = "Reading"
    /\ ~convert(item).ok
    /\ cur' = [cur EXCEPT ![c] = [started |-> TRUE, item |-> item,
                                  dnBefore |-> session[c].dn,
                                  backend |-> <<>>, ret |-> None]]
    /\ io' = [io EXCEPT ![c] = <<>>]
    /\ UNCHANGED <<listening, pc, session, iter, outcome, bound, eof>>

\* handle_incoming_message, Err arm of the conversion, up to the first await:
\* the item is an io error or converts to no ServerOps.
RecvError(c, item) ==
    /\ pc[c] = "Reading"
    /\ ~convert(item).ok
    /\ pc' = [pc EXCEPT ![c] = "NoticeSend"]
    /\ cur' = [cur EXCEPT ![c] = [started |-> TRUE, item |-> item,
                                  dnBefore |-> session[c].dn,
                                  backend |-> <<>>, ret |-> None]]
    /\ io' = [io EXCEPT ![c] = <<>>]
    /\ UNCHANGED <<listening, session, iter, outcome, bound, eof>>

\* Mutant of NoticeSend: a failed send of the notice bails out before the flush.
NoticeSend_bails(c, ok) ==
    /\ pc[c] = "NoticeSend"
    /\ io' = [io EXCEPT ![c] = Append(@, [ev |-> "send", msg |-> DisconnectionNotice,
                                           ok |-> ok])]
    /\ IF ok
       THEN /\ pc' = [pc EXCEPT ![c] = "NoticeFlush"]
            /\ UNCHANGED <<listening, outcome>>
       ELSE /\ pc' = [pc EXCEPT ![c] = "Closed"]
            /\ outcome' = [outcome EXCEPT ![c] = "error"]
            /\ listening' = map_err(listening)
    /\ UNCHANGED <<session, iter, cur, bound, eof>>

\* resp.send(DisconnectionNotice::gen(..)).await; its result is dropped.
NoticeSend(c, ok) ==
    /\ pc[c] = "NoticeSend"
    /\ io' = [io EXCEPT ![c] = Append(@, [ev |-> "send", msg |-> DisconnectionNotice,
                                           ok |-> ok])]
    /\ pc' = [pc EXCEPT ![c] = "NoticeFlush"]
    /\ UNCHANGED <<listening, session, iter, cur, outcome, bound, eof>>

\* resp.flush().await, its result dropped, then bail!: the `?` of the loop
\* returns the error from the service, where map_err logs it.
NoticeFlush(c, ok) ==
    /\ pc[c] = "NoticeFlush"
    /\ io' = [io EXCEPT ![c] = Append(@, [ev |-> "flush", ok |-> ok])]
    /\ pc' = [pc EXCEPT ![c] = "Closed"]
    /\ outcome' = [outcome EXCEPT ![c] = "error"]
    /\ listening' = map_err(listening)
    /\ UNCHANGED <<session, iter, cur, bound, eof>>

\* handle_incoming_message, Ok arm: the item converts to a ServerOps, the
\* session dispatches it.  None ends the loop with Ok(false); Some(result)
\* starts the for loop over result.
RecvOp(c, item) ==
    /\ pc[c] = "Reading"
    /\ convert(item).ok
    /\ \E answers \in BackendAnswers(convert(item).val) :
       LET server_op == convert(item).val
           r == handle_ldap_message(session[c], server_op, answers)
           calls == [i \in DOMAIN answers |->
                        [req |-> backend_calls(server_op)[i], res |-> answers[i]]]
       IN  /\ session' = own_session(session, c, r.self)
           /\ cur' = [cur EXCEPT ![c] = [started |-> TRUE, item |-> item,
                                         dnBefore |-> session[c].dn,
                                         backend |-> calls, ret |-> r.ret]]
           /\ io' = [io EXCEPT ![c] = <<>>]
           /\ bound' = [bound EXCEPT ![c] =
                            IF server_op.kind = "SimpleBind" /\ answers[1] = BackendOk
                            THEN server_op.dn ELSE @]
           /\ IF r.ret.some
              THEN /\ iter' = [iter EXCEPT ![c] = r.ret.val]
                   /\ pc' = [pc EXCEPT ![c] = IF r.ret.val = <<>> THEN "Flushing"
                                                                 ELSE "Writing"]
                   /\ UNCHANGED outcome
              ELSE /\ pc' = [pc EXCEPT ![c] = "Closed"]
                   /\ outcome' = [outcome EXCEPT ![c] = "ok"]
                   /\ UNCHANGED iter
    /\ UNCHANGED <<listening, eof>>

\* Mutant of SendResponse: the Responses are taken from the back of result.
SendResponse_from_back(c, ok) ==
    /\ pc[c] = "Writing"
    /\ io' = [io EXCEPT ![c] = Append(@, [ev |-> "send",
                                           msg |-> iter[c][Len(iter[c])],
                                           ok |-> ok])]
    /\ IF ok
       THEN /\ iter' = [iter EXCEPT ![c] = SubSeq(@, 1, Len(@) - 1)]
            /\ pc' = [pc EXCEPT ![c] = IF Len(iter[c]) = 1 THEN "Flushing"
                                                             ELSE "Writing"]
            /\ UNCHANGED <<listening, outcome>>
       ELSE /\ iter' = [iter EXCEPT ![c] = <<>>]
            /\ pc' = [pc EXCEPT ![c] = "Closed"]
            /\ outcome' = [outcome EXCEPT ![c] = "error"]
            /\ listening' = map_err(listening)
    /\ UNCHANGED <<session, cur, bound, eof>>

\* Mutant of SendResponse: a failed send is logged and the loop goes on with
\* the next Response.
SendResponse_goes_on(c, ok) ==
    /\ pc[c] = "Writing"
    /\ io' = [io EXCEPT ![c] = Append(@, [ev |-> "send", msg |-> Head(iter[c]),
                                           ok |-> ok])]
    /\ iter' = [iter EXCEPT ![c] = Tail(@)]
    /\ pc' = [pc EXCEPT ![c] = IF Tail(iter[c]) = <<>> THEN "Flushing" ELSE "Writing"]
    /\ UNCHANGED <<listening, outcome>>
    /\ UNCHANGED <<session, cur, bound, eof>>

\* Mutant of SendResponse: after a failed send the Responses of the cycle are
\* sent again from the first one.
SendResponse_restarts(c, ok) ==
    /\ pc[c] = "Writing"
    /\ IF ok
       THEN /\ io' = [io EXCEPT ![c] = Append(@, [ev |-> "send", msg |-> Head(iter[c]),
                                                  ok |-> ok])]
            /\ iter' = [iter EXCEPT ![c] = Tail(@)]
            /\ pc' = [pc EXCEPT ![c] = IF Tail(iter[c]) = <<>> THEN "Flushing"
                                                                 ELSE "Writing"]
       ELSE /\ io' = [io EXCEPT ![c] = <<>>]
            /\ iter' = [iter EXCEPT ![c] = cur[c].ret.val]
            /\ UNCHANGED pc
    /\ UNCHANGED <<listening, outcome>>
    /\ UNCHANGED <<session, cur, bound, eof>>

\* One turn of the for loop: resp.send(rmsg).await; an Err bails out.
SendResponse(c, ok) ==
    /\ pc[c] = "Writing"
    /\ io' = [io EXCEPT ![c] = Append(@, [ev |-> "send", msg |-> Head(iter[c]),
                                           ok |-> ok])]
    /\ IF ok
       THEN /\ iter' = [iter EXCEPT ![c] = Tail(@)]
            /\ pc' = [pc EXCEPT ![c] = IF Tail(iter[c]) = <<>> THEN "Flushing"
                                                                 ELSE "Writing"]
            /\ UNCHANGED <<listening, outcome>>
       ELSE /\ iter' = [iter EXCEPT ![c] = <<>>]
            /\ pc' = [pc EXCEPT ![c] = "Closed"]
            /\ outcome' = [outcome EXCEPT ![c] = "error"]
            /\ listening' = map_err(listening)
    /\ UNCHANGED <<session, cur, bound, eof>>

\* resp.flush().await after the for loop: Ok(true) goes back to
\* requests.next(); an Err bails out.
FlushResponses(c, ok) ==
    /\ pc[c] = "Flushing"
    /\ io' = [io EXCEPT ![c] = Append(@, [ev |-> "flush", ok |-> ok])]
    /\ IF ok
       THEN /\ pc' = [pc EXCEPT ![c] = "Reading"]
            /\ UNCHANGED <<listening, outcome>>
       ELSE /\ pc' = [pc EXCEPT ![c] = "Closed"]
            /\ outcome' = [outcome EXCEPT ![c] = "error"]
            /\ listening' = map_err(listening)
    /\ UNCHANGED <<session, iter, cur, bound, eof>>

\* One step of the task that serves connection c.
Serve(c) ==
    \/ StreamEnd(c)
    \/ \E item \in Incoming : RecvError(c, item)
    \/ \E ok \in BOOLEAN : NoticeSend(c, ok)
    \/ \E ok \in BOOLEAN : NoticeFlush(c, ok)
    \/ \E item \in Incoming : RecvOp(c, item)
    \/ \E ok \in BOOLEAN : SendResponse(c, ok)
    \/ \E ok \in BOOLEAN : FlushResponses(c, ok)

Next ==
    \E c \in Conns :
        \/ Accept(c)
        \/ Serve(c)

Spec == Init /\ [][Next]_vars

\* ------------------------------------------------- reading the cycle record
\* The ServerOps a connection's current cycle dispatched, if it dispatched one.
Dispatched(c) == cur[c].started /\ convert(cur[c].item).ok

CycleOp(c) == convert(cur[c].item).val

IsKind(c, kind) == Dispatched(c) /\ CycleOp(c).kind = kind

\* The current cycle of c is a Bind the backend accepted / rejected.
BindAccepted(c) == IsKind(c, "SimpleBind") /\ cur[c].backend[1].res = BackendOk
BindRejected(c) == IsKind(c, "SimpleBind") /\ cur[c].backend[1].res # BackendOk

\* The Responses the peer was handed in the current cycle: the successful sends.
RECURSIVE SentOf(_)
SentOf(log) ==
    IF log = <<>> THEN <<>>
    ELSE IF log[1].ev = "send" /\ log[1].ok
         THEN <<log[1].msg>> \o SentOf(Tail(log))
         ELSE SentOf(Tail(log))

\* ----------------------------------------------------------------- claims

\* C1: a Bind the backend accepts sets the session identity to exactly the
\* identity of the request, and dispatch returns a list of exactly one
\* Response, the bind-success Response of that request.
C1_BindAcceptedSetsIdentity ==
    \A c \in Conns :
        BindAccepted(c) =>
            /\ session[c].dn = CycleOp(c).dn
            /\ cur[c].ret.some
            /\ Len(cur[c].ret.val) = 1
            /\ cur[c].ret.val[1] = [msgid |-> CycleOp(c).msgid, op |-> "BindResponse",
                                    code |-> "Success"]

\* C1 witness: an accepted Bind changed the identity of an already bound session.
C1_Witness ==
    \E c \in Conns :
        /\ BindAccepted(c)
        /\ cur[c].dnBefore \in Names
        /\ cur[c].dnBefore # CycleOp(c).dn
        /\ session[c].dn = CycleOp(c).dn

\* C2: a Bind the backend rejects returns exactly one invalid-credentials
\* Response and leaves the session identity as it was before the call, in
\* every session state.
C2_BindRejectedKeepsIdentity ==
    \A c \in Conns :
        BindRejected(c) =>
            /\ session[c].dn = cur[c].dnBefore
            /\ cur[c].ret.some
            /\ Len(cur[c].ret.val) = 1
            /\ cur[c].ret.val[1] = [msgid |-> CycleOp(c).msgid, op |-> "BindResponse",
                                    code |-> "InvalidCredentials"]

\* C2 witness: a session bound to one identity had a Bind as another rejected.
C2_Witness ==
    \E c \in Conns :
        /\ BindRejected(c)
        /\ cur[c].dnBefore \in Names
        /\ cur[c].dnBefore # CycleOp(c).dn
        /\ session[c].dn = cur[c].dnBefore

\* C3: in every reachable state the identity of an accepted connection is the
\* identity of the latest Bind the backend accepted on it, or "Unauthenticated"
\* when it accepted none.
C3_IdentityIsLatestAcceptedBind ==
    \A c \in Conns : pc[c] # "Idle" => session[c].dn = bound[c]

\* C3 witness: after an accepted Bind, a Search ran and a later cycle started
\* from the identity that Bind left.
C3_Witness ==
    \E c \in Conns :
        /\ IsKind(c, "Search")
        /\ bound[c] \in Names
        /\ pc[c] = "Reading"
        /\ session[c].dn = bound[c]

\* The text a Whoami answers for each identity, written out.
WhoamiText(identity) ==
    CASE identity = Unauthenticated -> "dn: Unauthenticated"
      [] identity = "x"             -> "dn: x"
      [] identity = "y"             -> "dn: y"

\* C4: Whoami returns exactly one Response whose text is "dn: " followed by
\* the current identity: "dn: D" after a successful bind to D and
\* "dn: Unauthenticated" when no bind has succeeded on the connection.
C4_WhoamiReturnsIdentity ==
    \A c \in Conns :
        IsKind(c, "Whoami") =>
            /\ cur[c].ret.some
            /\ Len(cur[c].ret.val) = 1
            /\ cur[c].ret.val[1] = [msgid |-> CycleOp(c).msgid, op |-> "WhoamiResponse",
                                    code |-> "Success",
                                    value |-> WhoamiText(bound[c])]
            /\ session[c].dn = cur[c].dnBefore

\* C4 witness: a Whoami was answered on a session bound to "y".
C4_Witness ==
    \E c \in Conns :
        /\ IsKind(c, "Whoami")
        /\ bound[c] = "y"
        /\ cur[c].ret.val[1].value = "dn: y"

\* C5: Unbind returns the close sentinel None in every session state, and the
\* loop goes to Closed without a send or a flush and without an error.
C5_UnbindClosesSilently ==
    \A c \in Conns :
        IsKind(c, "Unbind") =>
            /\ cur[c].ret = None
            /\ pc[c] = "Closed"
            /\ io[c] = <<>>
            /\ iter[c] = <<>>
            /\ outcome[c] = "ok"
            /\ session[c].dn = cur[c].dnBefore

\* C5 witness: a bound session received Unbind and its connection is closed.
C5_Witness ==
    \E c \in Conns :
        /\ IsKind(c, "Unbind")
        /\ cur[c].dnBefore \in Names
        /\ pc[c] = "Closed"

\* C6: a Search yielding N entries returns exactly N+1 Responses: the N
\* search-result-entry Responses in the order of the entries, then one
\* search-done Response as the last element.
C6_SearchEntriesThenDone ==
    \A c \in Conns :
        IsKind(c, "Search") =>
            LET N == Len(SearchEntries)
                out == cur[c].ret.val
            IN  /\ cur[c].ret.some
                /\ Len(out) = N + 1
                /\ \A i \in 1..N :
                       out[i] = [msgid |-> CycleOp(c).msgid, op |-> "SearchResultEntry",
                                 entry |-> SearchEntries[i]]
                /\ out[N + 1] = [msgid |-> CycleOp(c).msgid, op |-> "SearchResultDone",
                                 code |-> "Success"]
                /\ \A i \in 1..Len(out) : out[i].op = "SearchResultDone" <=> i = N + 1

\* C6 witness: a Search was dispatched and its Responses were all sent.
C6_Witness ==
    \E c \in Conns :
        /\ IsKind(c, "Search")
        /\ Len(cur[c].ret.val) = 3
        /\ SentOf(io[c]) = cur[c].ret.val

\* The current cycle of c was started by a decode failure of the codec.
DecodeFailed(c) == cur[c].started /\ cur[c].item = Err([error |-> "decode"])

\* C7: on a decode failure the loop attempts one send of the disconnection
\* notice, then one flush, dispatches nothing (identity unchanged, backend not
\* called) and closes with an error, whatever the send and the flush return.
C7_DecodeFailureNoticeThenClose ==
    \A c \in Conns :
        DecodeFailed(c) =>
            /\ session[c].dn = cur[c].dnBefore
            /\ cur[c].backend = <<>>
            /\ cur[c].ret = None
            /\ iter[c] = <<>>
            /\ Len(io[c]) <= 2
            /\ Len(io[c]) >= 1 => /\ io[c][1].ev = "send"
                                  /\ io[c][1].msg = DisconnectionNotice
            /\ Len(io[c]) = 2 => io[c][2].ev = "flush"
            /\ pc[c] = CASE Len(io[c]) = 0 -> "NoticeSend"
                         [] Len(io[c]) = 1 -> "NoticeFlush"
                         [] OTHER          -> "Closed"
            /\ outcome[c] = IF pc[c] = "Closed" THEN "error" ELSE "running"

\* C7 witness: the first message of a connection failed to decode, the send of
\* the notice failed, the flush was still attempted, the connection closed.
C7_Witness ==
    \E c \in Conns :
        /\ DecodeFailed(c)
        /\ cur[c].dnBefore = Unauthenticated
        /\ Len(io[c]) = 2
        /\ ~io[c][1].ok
        /\ pc[c] = "Closed"
        /\ outcome[c] = "error"

\* What one connection's task owns.
Local(c) == <<pc[c], session[c], iter[c], cur[c], io[c], outcome[c], bound[c], eof[c]>>

\* C8 (state part): when A is bound as "x" and B as "y", a Whoami answered on
\* either connection carries that connection's own identity.
C8_WhoamiOwnIdentity ==
    \A a, b \in Conns :
        (a # b /\ bound[a] = "x" /\ bound[b] = "y") =>
            /\ IsKind(a, "Whoami") => cur[a].ret.val[1].value = "dn: x"
            /\ IsKind(b, "Whoami") => cur[b].ret.val[1].value = "dn: y"

\* C8 (step part): the identity of a connection changes only in a step of its
\* own task (its accept or a dispatch it made while Reading).
C8_OnlyOwnStepsChangeIdentity ==
    \A b \in Conns :
        session'[b] # session[b] =>
            /\ pc[b] \in {"Idle", "Reading"}
            /\ pc'[b] # pc[b]
            /\ \A a \in Conns \ {b} : Local(a)' = Local(a)

\* C8: session isolation: under every interleaving of two connections a Bind
\* on one never changes the identity of the other, and after A binds as "x"
\* and B as "y" a Whoami on A returns "dn: x" and one on B returns "dn: y".
C8_SessionIsolation ==
    /\ []C8_WhoamiOwnIdentity
    /\ [][C8_OnlyOwnStepsChangeIdentity]_vars

\* C8 witness: both connections are bound, to different identities, and each
\* has answered a Whoami.
C8_Witness ==
    \E a, b \in Conns :
        /\ a # b
        /\ bound[a] = "x" /\ bound[b] = "y"
        /\ IsKind(a, "Whoami") /\ IsKind(b, "Whoami")
        /\ cur[a].ret.val[1].value = "dn: x"
        /\ cur[b].ret.val[1].value = "dn: y"

\* C9 (state part): the server keeps running, a connection not yet accepted
\* can be accepted, and an open connection's task can take its next step.
C9_ServerKeepsServing ==
    /\ listening
    /\ \A d \in Conns :
        /\ pc[d] = "Idle" => ENABLED Accept(d)
        /\ pc[d] \notin {"Idle", "Closed"} => ENABLED Serve(d)

\* C9 (step part): the step in which a connection ends with an error closes
\* that connection and changes nothing of any other connection; a connection
\* that is accepted starts Reading with identity "Unauthenticated".
C9_ErrorIsLocal ==
    \A c \in Conns :
        /\ (outcome[c] = "running" /\ outcome'[c] = "error") =>
              /\ pc'[c] = "Closed"
              /\ listening'
              /\ \A d \in Conns \ {c} : Local(d)' = Local(d)
        /\ (pc[c] = "Idle" /\ pc'[c] # "Idle") =>
              /\ pc'[c] = "Reading"
              /\ session'[c].dn = Unauthenticated
              /\ bound'[c] = Unauthenticated

\* C9: failure isolation: when one connection's loop ends with a fatal error
\* only that connection becomes Closed; the other connections keep their state
\* and keep being served, and the listener keeps accepting connections, each
\* starting with identity "Unauthenticated".
C9_FailureIsolation ==
    /\ []C9_ServerKeepsServing
    /\ [][C9_ErrorIsLocal]_vars

\* C9 witness: one connection ended with an error, and another one, bound
\* before, is in the middle of sending the Responses of a later cycle.
C9_Witness ==
    \E c, d \in Conns :
        /\ c # d
        /\ outcome[c] = "error" /\ pc[c] = "Closed"
        /\ pc[d] = "Writing" /\ outcome[d] = "running"
        /\ bound[d] \in Names

\* C10 (state part): the send attempts of a cycle are the Responses dispatch
\* returned, in that order, each made only after the one before succeeded; the
\* flush comes after all of them; the loop is back at Reading only when every
\* send and the flush have succeeded.
C10_SendsInOrderThenFlush ==
    \A c \in Conns :
        (cur[c].started /\ cur[c].ret.some) =>
            LET out == cur[c].ret.val
                n   == Len(io[c])
            IN  /\ n <= Len(out) + 1
                /\ \A i \in 1..n :
                       /\ i <= Len(out) => io[c][i].ev = "send" /\ io[c][i].msg = out[i]
                       /\ i = Len(out) + 1 => io[c][i].ev = "flush"
                       /\ i < n => io[c][i].ok
                /\ pc[c] \in {"Reading", "Writing", "Flushing", "Closed"}
                /\ pc[c] = "Writing"  => /\ n < Len(out)
                                         /\ iter[c] = SubSeq(out, n + 1, Len(out))
                /\ pc[c] = "Flushing" => n = Len(out) /\ iter[c] = <<>>
                /\ pc[c] = "Reading"  => /\ n = Len(out) + 1
                                         /\ io[c][n].ok
                                         /\ SentOf(io[c]) = out
                /\ pc[c] = "Closed"   => \/ n >= 1 /\ ~io[c][n].ok
                                         \/ n = Len(out) + 1 /\ io[c][n].ok

\* C10 (step part): an incoming item is read and dispatched only from Reading,
\* that is after the sends and the flush of the cycle before have completed.
C10_NextReadAfterCycle ==
    \A c \in Conns :
        (cur'[c] # cur[c] \/ session'[c] # session[c] \/ Len(io'[c]) < Len(io[c])) =>
            /\ pc[c] \in {"Idle", "Reading"}
            /\ iter[c] = <<>>
            /\ (cur[c].started => SentOf(io[c]) = cur[c].ret.val
                                  /\ io[c][Len(io[c])] = [ev |-> "flush", ok |-> TRUE])

\* C10: strict per-connection pipelining: the Responses of a cycle are sent in
\* the order dispatch produced them, followed by one flush, and the next
\* incoming Operation is not read or dispatched until every send and the flush
\* of the current cycle have completed.
C10_StrictPipelining ==
    /\ []C10_SendsInOrderThenFlush
    /\ [][C10_NextReadAfterCycle]_vars

\* C10 witness: the three Responses of a Search were sent in order and flushed,
\* and the loop is Reading again.
C10_Witness ==
    \E c \in Conns :
        /\ IsKind(c, "Search")
        /\ pc[c] = "Reading"
        /\ Len(io[c]) = 4
        /\ \A i \in 1..3 : io[c][i] = [ev |-> "send", msg |-> cur[c].ret.val[i], ok |-> TRUE]
        /\ io[c][4] = [ev |-> "flush", ok |-> TRUE]

\* Whether each attempt of a send/flush log succeeded, in order.
OkPattern(log) == [i \in DOMAIN log |-> log[i].ok]

\* What a client of connection c can observe of the current cycle, and where
\* the cycle left the connection.
Observable(c) == <<cur[c].ret, io[c], session[c], iter[c], pc[c], outcome[c]>>

\* C11: two runs that differ only in why the backend rejects a Bind (the two
\* connections, given the same prior identity, the same request, the same
\* transport results and the same end of stream) show the same Responses, the
\* same identity and the same connection state.
C11_RejectReasonNotObservable ==
    \A a, b \in Conns :
        ( /\ BindRejected(a) /\ BindRejected(b)
          /\ cur[a].item = cur[b].item
          /\ cur[a].dnBefore = cur[b].dnBefore
          /\ OkPattern(io[a]) = OkPattern(io[b])
          /\ eof[a] = eof[b] )
        => Observable(a) = Observable(b)

\* C11 witness: the same Bind was rejected on both connections, once as an
\* unknown identity and once as a wrong credential, and both answers were
\* sent and flushed.
C11_Witness ==
    \E a, b \in Conns :
        /\ BindRejected(a) /\ BindRejected(b)
        /\ cur[a].item = cur[b].item
        /\ cur[a].dnBefore = cur[b].dnBefore
        /\ cur[a].backend[1].res = "ErrUnknownUser"
        /\ cur[b].backend[1].res = "ErrWrongPassword"
        /\ pc[a] = "Reading" /\ pc[b] = "Reading"
        /\ Len(io[a]) = 2 /\ Len(io[b]) = 2

\* The Responses of the current cycle were all sent and flushed without error.
CycleWritten(c) ==
    /\ cur[c].started /\ cur[c].ret.some
    /\ Len(io[c]) = Len(cur[c].ret.val) + 1
    /\ \A i \in DOMAIN io[c] : io[c][i].ok

\* The connection can next receive a Bind that the backend accepts.
CanBindNext(c) ==
    ENABLED (\E item \in Incoming : RecvOp(c, item) /\ BindAccepted(c)')

\* C12: a Bind the backend rejects is no connection fault: it is answered, an
\* error is reported only when a send or the flush failed, and once the answer
\* is sent and flushed the loop is Reading again (until the stream ends) and
\* can serve a later Bind that succeeds.
C12_RejectedBindIsNoFault ==
    \A c \in Conns :
        BindRejected(c) =>
            /\ cur[c].ret.some
            /\ outcome[c] = "error" => /\ io[c] # <<>>
                                       /\ ~io[c][Len(io[c])].ok
            /\ pc[c] = "Closed" => (outcome[c] = "error" \/ eof[c])
            /\ CycleWritten(c) => /\ outcome[c] # "error"
                                  /\ pc[c] = IF eof[c] THEN "Closed" ELSE "Reading"
                                  /\ ~eof[c] => CanBindNext(c)

\* C12 witness: the answer to a rejected Bind was sent and flushed and the
\* loop is Reading again.
C12_Witness ==
    \E c \in Conns :
        /\ BindRejected(c)
        /\ CycleWritten(c)
        /\ pc[c] = "Reading"
        /\ outcome[c] = "running"

\* A send or the flush of the current cycle's Responses has failed.
WriteFailed(c) ==
    /\ cur[c].started /\ cur[c].ret.some
    /\ \E i \in DOMAIN io[c] : ~io[c][i].ok

\* C13: a send or flush failure while writing a cycle's Responses is fatal for
\* the connection: the failed attempt is the last one of the cycle (no later
\* send, no flush after a failed send, no retry), the loop is Closed with an
\* error and takes no further step.
C13_WriteFailureIsFatal ==
    \A c \in Conns :
        WriteFailed(c) =>
            /\ \A i \in DOMAIN io[c] : ~io[c][i].ok => i = Len(io[c])
            /\ io[c][Len(io[c])].ev = "send" =>
                   \A i \in DOMAIN io[c] : io[c][i].ev # "flush"
            /\ \A i, j \in DOMAIN io[c] :
                   (i < j /\ io[c][i].ev = "send" /\ io[c][j].ev = "send")
                       => io[c][i].msg # io[c][j].msg
            /\ pc[c] = "Closed"
            /\ outcome[c] = "error"
            /\ ~eof[c]
            /\ ~ENABLED Serve(c)

\* C13 witness: the second send of a Search's Responses failed; the third
\* Response and the flush were never attempted.
C13_Witness ==
    \E c \in Conns :
        /\ IsKind(c, "Search")
        /\ Len(io[c]) = 2
        /\ io[c][1].ok /\ ~io[c][2].ok
        /\ pc[c] = "Closed"
        /\ outcome[c] = "error"

\* C14 (state part): in Closed the connection's task has no step left: it reads
\* no item, dispatches nothing, sends and flushes nothing, and is not accepted
\* again.
C14_ClosedHasNoStep ==
    \A c \in Conns :
        pc[c] = "Closed" =>
            /\ ~ENABLED Serve(c)
            /\ ~ENABLED Accept(c)
            /\ outcome[c] \in {"ok", "error"}
            /\ iter[c] = <<>>

\* C14 (step part): nothing of a Closed connection ever changes: its state,
\* its cycle record with the backend calls, its send log and its session.
C14_ClosedIsFrozen ==
    \A c \in Conns : pc[c] = "Closed" => Local(c)' = Local(c)

\* C14: Closed is terminal for a connection, however it was reached: no
\* further item is read or dispatched, the backend is not called again, no
\* Response is sent, and the state never leaves Closed.
C14_ClosedIsTerminal ==
    /\ []C14_ClosedHasNoStep
    /\ [][C14_ClosedIsFrozen]_vars

\* C14 witness: one connection was closed by Unbind and the other by a
\* transport error, after which the first is still Closed.
C14_Witness ==
    \E c, d \in Conns :
        /\ c # d
        /\ pc[c] = "Closed" /\ IsKind(c, "Unbind")
        /\ pc[d] = "Closed" /\ WriteFailed(d)

\* C15 (state part): a connection whose incoming stream has ended is Closed
\* without an error, and its log holds no disconnection notice, only the
\* completed cycle before the end of the stream, if any.
C15_EndedStreamClosedCleanly ==
    \A c \in Conns :
        eof[c] =>
            /\ pc[c] = "Closed"
            /\ outcome[c] = "ok"
            /\ \A i \in DOMAIN io[c] : io[c][i].ok
            /\ \A i \in DOMAIN io[c] :
                   io[c][i].ev = "send" => io[c][i].msg # DisconnectionNotice
            /\ cur[c].started => CycleWritten(c)
            /\ ~cur[c].started => io[c] = <<>>

\* C15 (step part): the step in which the stream ends goes from Reading to
\* Closed, reports no error and sends or flushes nothing.
C15_EndOfStreamStep ==
    \A c \in Conns :
        (~eof[c] /\ eof'[c]) =>
            /\ pc[c] = "Reading"
            /\ pc'[c] = "Closed"
            /\ outcome'[c] = "ok"
            /\ io'[c] = io[c]
            /\ iter'[c] = <<>>
            /\ session'[c] = session[c]
            /\ cur'[c] = cur[c]

\* C15: when the incoming stream ends with no decode error pending, the loop
\* goes to Closed gracefully: no error is reported and no Response, in
\* particular no disconnection notice, is sent.
C15_EndOfStreamIsGraceful ==
    /\ []C15_EndedStreamClosedCleanly
    /\ [][C15_EndOfStreamStep]_vars

\* C15 witness: the stream of a bound connection ended after a completed
\* cycle; the connection is Closed without error.
C15_Witness ==
    \E c \in Conns :
        /\ eof[c]
        /\ bound[c] \in Names
        /\ CycleWritten(c)
        /\ pc[c] = "Closed"
        /\ outcome[c] = "ok"

\* The kinds of Response the builders of this module produce for a request.
ResponseOps == {"BindResponse", "SearchResultEntry", "SearchResultDone", "WhoamiResponse"}

\* C16: dispatch is total: for every Operation, session state and backend
\* outcome handle_ldap_message returns a defined result: the close sentinel
\* None exactly when the Operation is Unbind, and otherwise a non-empty list of
\* Responses to that request; the session stays a defined identity.
C16_DispatchIsTotal ==
    \A c \in Conns :
        Dispatched(c) =>
            /\ CycleOp(c).kind \in {"SimpleBind", "Search", "Whoami", "Unbind"}
            /\ cur[c].ret = None <=> CycleOp(c).kind = "Unbind"
            /\ CycleOp(c).kind # "Unbind" =>
                   /\ cur[c].ret.some
                   /\ Len(cur[c].ret.val) >= 1
                   /\ \A i \in DOMAIN cur[c].ret.val :
                          /\ cur[c].ret.val[i].op \in ResponseOps
                          /\ cur[c].ret.val[i].msgid = cur[c].item.val.msgid
            /\ session[c].dn \in Names \cup {Unauthenticated}
            /\ outcome[c] = "error" => WriteFailed(c)

\* C16 witness: an Unbind was dispatched on a bound session and a rejected
\* Bind on an unauthenticated one; the first returned None, the second a list.
C16_Witness ==
    \E a, b \in Conns :
        /\ IsKind(a, "Unbind") /\ cur[a].dnBefore \in Names
        /\ cur[a].ret = None
        /\ BindRejected(b) /\ cur[b].dnBefore = Unauthenticated
        /\ cur[b].ret.some

\* C17: the backend's bind is called exactly once for each dispatched Bind,
\* with the identity and the credential of that request, and is not called
\* for Search, Whoami, Unbind or an item that fails to convert.
C17_BackendCalledOncePerBind ==
    \A c \in Conns :
        cur[c].started =>
            IF cur[c].item.ok /\ cur[c].item.val.op = "BindRequest"
            THEN /\ Len(cur[c].backend) = 1
                 /\ cur[c].backend[1].req = [name |-> cur[c].item.val.dn,
                                             password |-> cur[c].item.val.pw]
                 /\ cur[c].backend[1].res \in BackendResults
            ELSE cur[c].backend = <<>>

\* C17 witness: one connection dispatched a Bind as "y", the other received an
\* item that failed to decode; the backend was called for the first only.
C17_Witness ==
    \E a, b \in Conns :
        /\ IsKind(a, "SimpleBind")
        /\ cur[a].backend = << [req |-> [name |-> "y", password |-> "secret"],
                                res |-> cur[a].backend[1].res] >>
        /\ DecodeFailed(b)
        /\ cur[b].backend = <<>>

\* C18: Search is not gated on authentication: two runs that differ only in
\* the session's identity (the two connections, given the same Search) return
\* the same list of Responses, the full entry list, and leave the identity.
C18_SearchIgnoresIdentity ==
    \A a, b \in Conns :
        (IsKind(a, "Search") /\ IsKind(b, "Search") /\ cur[a].item = cur[b].item) =>
            /\ cur[a].ret = cur[b].ret
            /\ Len(cur[a].ret.val) = Len(SearchEntries) + 1
            /\ session[a].dn = cur[a].dnBefore

\* C18 witness: the same Search was dispatched on an unauthenticated session
\* and on a bound one.
C18_Witness ==
    \E a, b \in Conns :
        /\ IsKind(a, "Search") /\ IsKind(b, "Search")
        /\ cur[a].item = cur[b].item
        /\ cur[a].dnBefore = Unauthenticated
        /\ cur[b].dnBefore \in Names
        /\ cur[a].ret = cur[b].ret

\* The item of the current cycle is none of the four supported Operations: an
\* io error of the stream or a well-formed message of another kind.
Unconvertible(c) ==
    /\ cur[c].started
    /\ \/ ~cur[c].item.ok
       \/ cur[c].item.val.op \notin {"BindRequest", "SearchRequest",
                                     "UnbindRequest", "WhoamiRequest"}

\* C19: every item that converts to none of the four Operations (a read error,
\* a message of an unsupported kind) is handled like a decode failure: one
\* disconnection notice is attempted, then one flush, nothing is dispatched,
\* and the connection closes with an error, whatever the session's identity.
C19_UnconvertibleLikeDecodeFailure ==
    /\ \A c \in Conns :
        Unconvertible(c) =>
            /\ session[c].dn = cur[c].dnBefore
            /\ cur[c].backend = <<>>
            /\ cur[c].ret = None
            /\ Len(io[c]) <= 2
            /\ \A i \in DOMAIN io[c] :
                   io[c][i] = IF i = 1
                              THEN [ev |-> "send", msg |-> DisconnectionNotice,
                                    ok |-> io[c][i].ok]
                              ELSE [ev |-> "flush", ok |-> io[c][i].ok]
            /\ pc[c] = CASE Len(io[c]) = 0 -> "NoticeSend"
                         [] Len(io[c]) = 1 -> "NoticeFlush"
                         [] OTHER          -> "Closed"
            /\ outcome[c] = IF pc[c] = "Closed" THEN "error" ELSE "running"
    /\ \A a, b \in Conns :
        ( /\ DecodeFailed(a) /\ Unconvertible(b)
          /\ cur[a].dnBefore = cur[b].dnBefore
          /\ OkPattern(io[a]) = OkPattern(io[b]) )
        => Observable(a) = Observable(b)

\* C19 witness: a read error on one connection and a ModifyRequest on a bound
\* session of the other both ended in Closed with an error after the notice.
C19_Witness ==
    \E a, b \in Conns :
        /\ cur[a].started /\ cur[a].item = Err([error |-> "read"])
        /\ cur[b].started /\ cur[b].item.ok /\ cur[b].item.val.op = "ModifyRequest"
        /\ cur[b].dnBefore \in Names
        /\ pc[a] = "Closed" /\ pc[b] = "Closed"
        /\ outcome[a] = "error" /\ outcome[b] = "error"
        /\ Len(io[a]) = 2 /\ Len(io[b]) = 2

\* ---------------------------------------------------------------- liveness
\* Every send and every flush that is awaited completes, with Ok or with Err;
\* the backend call completes within the dispatch step.  The peer of every
\* connection sends finitely many messages and then closes: a loop that keeps
\* coming back to requests.next() eventually gets None.
Fairness ==
    \A c \in Conns :
        /\ WF_vars(\E ok \in BOOLEAN : SendResponse(c, ok))
        /\ WF_vars(\E ok \in BOOLEAN : FlushResponses(c, ok))
        /\ WF_vars(\E ok \in BOOLEAN : NoticeSend(c, ok))
        /\ WF_vars(\E ok \in BOOLEAN : NoticeFlush(c, ok))
        /\ SF_vars(StreamEnd(c))

SpecLive == Spec /\ Fairness

\* The loop of c is inside a cycle: past requests.next(), awaiting a send or
\* a flush.
InCycle(c) == pc[c] \in {"Writing", "Flushing", "NoticeSend", "NoticeFlush"}

\* C20: under fairness every cycle started by a received item ends with the
\* loop back in Reading or in Closed, and a connection whose peer sends
\* finitely many messages and then closes reaches Closed.
C20_CyclesEndAndLoopCloses ==
    \A c \in Conns :
        /\ InCycle(c) ~> (pc[c] \in {"Reading", "Closed"})
        /\ (pc[c] = "Reading") ~> (pc[c] = "Closed")

\* C20 witness: a connection that had been in a cycle with three Responses to
\* send is Closed after its stream ended.
C20_Witness ==
    \E c \in Conns :
        /\ IsKind(c, "Search")
        /\ CycleWritten(c)
        /\ eof[c]
        /\ pc[c] = "Closed"

====
